---- MODULE Spec2Model ----
(***************************************************************************)
(* ClaudeKarma: the service worker's usage acquisition (fetchUsageData and *)
(* its strategies), the storage helpers it calls and the icon renderer's   *)
(* animation state.                                                        *)
(*                                                                         *)
(* JavaScript runs one handler at a time; a handler gives up control at    *)
(* every await.  A handler invocation is a record of procs with a program  *)
(* position pc; one action is one synchronous segment of the code, from    *)
(* the completion of one await to the start of the next.                   *)
(***************************************************************************)
EXTENDS Integers, Sequences, FiniteSets, TLC

\* ---------------------------------------------------------------- bounds
MaxCalls == 2      \* handler invocations started after the worker's start
MaxTicks == 1      \* advances of the clock

\* ------------------------------------------------------ program constants
MinFetchIntervalMs == 30000    \* TIMING.MIN_FETCH_INTERVAL_MS
AlarmDelayMs == 6000           \* delayInMinutes: 0.1
WarnThreshold == 70            \* refreshIcon: sessionPct >= 70 || weeklyPct >= 70
NullTime == 0                  \* lastFetchedAt: null
RefreshIntervalMs == 300000    \* TIMING.REFRESH_INTERVAL_MINUTES: 5

NoOrg == "none"
StoredOrg == "orgU"            \* an id entered by the user (SET_ORG_ID)
FoundOrg == "orgD"             \* an id returned by /bootstrap or /account

\* Bodies the quota API answers with: s is five_hour.utilization, w is
\* seven_day.utilization, m the utilization of the model-specific limit.
ApiPayloads == {[s |-> 40, w |-> 0, m |-> 0], [s |-> 0, w |-> 70, m |-> 0]}
\* Payloads the content script sends with USAGE_DATA_SCRAPED: currentSession
\* (s) and weeklyLimits (w: allModels, m: sonnetOnly), nothing else.
ScrapePayloads == {[s |-> 80, w |-> 40, m |-> 0]}

\* Outcomes of one request to the quota API: a 2xx with a payload ("ok"), a
\* 401/403 ("auth"), any other failure ("fail": another non-2xx status, or
\* fetch threw).
ApiResponses ==
    {[status |-> "ok", body |-> d] : d \in ApiPayloads}
    \cup {[status |-> x, body |-> [s |-> 0, w |-> 0, m |-> 0]] :
             x \in {"auth", "fail"}}
\* /bootstrap: 2xx with an id, 401/403, 2xx without an id or another non-2xx,
\* or the request threw.
BootResponses == {"org", "auth", "none", "throw"}
\* /account: 2xx with an id, 401/403, anything else.
AccountResponses == {"org", "auth", "none"}
\* chrome.tabs.query: no claude.ai tab, a usage tab that answered the
\* refresh message, or a tab navigated to the usage page.
TabStates == {"none", "sent", "nav"}

\* The slots of procs: one when handlers run one after the other, two when
\* an event is dispatched while another handler is suspended at an await.
OneAtATime == {1}
Overlapping == {1, 2}

VARIABLES
    now,          \* Date.now()
    calls,        \* handler invocations started so far
    usageData,    \* chrome.storage.local[usageData]
    settings,     \* chrome.storage.local[settings]
    alarmSet,     \* chrome.alarms: the alarms that are registered
    renderer,     \* icon-renderer.js module state and the toolbar icon
    scrapePending,\* a content script was asked to scrape and has not reported
    procs,        \* the handler invocations
    netCalls      \* call times of the last two fetchUsageData calls that
                  \* issued a network request

vars == <<now, calls, usageData, settings, alarmSet, renderer,
          scrapePending, procs, netCalls>>

\* ---------------------------------------------------------------- storage
\* An object literal { ...a, ...b }: b's keys overlay a's.
Merge(a, b) ==
    [k \in DOMAIN a \cup DOMAIN b |-> IF k \in DOMAIN b THEN b[k] ELSE a[k]]

\* DEFAULT_USAGE_DATA.  A snapshot's top-level keys: s is currentSession (its
\* percentage, which travels with its resetTimestamp), w and m are
\* weeklyLimits (allModels and the model entry), raw is _raw (empty when the
\* key is missing), last is lastFetchedAt, src is fetchSource, err is error
\* (a missing or null error reads as "none").
DefaultUsageData ==
    [s |-> 0, w |-> 0, m |-> 0, raw |-> {}, last |-> NullTime,
     src |-> "none", err |-> "none"]

\* What storage.getSettings returns on a fresh profile: DEFAULT_SETTINGS (of
\* which theme and language are kept) and no organizationId.
DefaultSettings ==
    [organizationId |-> NoOrg, theme |-> "dark", language |-> "en"]

\* storage.setUsageData: stores the record with lastFetchedAt: Date.now().
SetUsageData(u, t) == [u EXCEPT !.last = t]

\* storage.getSettings: { ...DEFAULT_SETTINGS, ...stored }.
GetSettings(stored) == Merge(DefaultSettings, stored)

\* storage.setSettings: { ...current, ...settings }.
SetSettingsWholesale(current, patch) == patch

SetSettings(current, patch) == Merge(current, patch)

\* usageData.error = tag; usageData.lastFetchedAt = Date.now(), on the record
\* read from storage (handleNotAuthenticated, the needs_setup branch).
ErrorRecordZeroed(u, tag, t) ==
    [DefaultUsageData EXCEPT !.err = tag, !.last = t]

ErrorRecord(u, tag, t) == [u EXCEPT !.err = tag, !.last = t]

\* ----------------------------------------------------------------- alarms
\* ALARMS.FETCH_USAGE
FetchUsageAlarmName == "fetchUsageData"

\* setupAlarm's alarm: { delayInMinutes: 0.1, periodInMinutes:
\* TIMING.REFRESH_INTERVAL_MINUTES } under ALARMS.FETCH_USAGE.
FetchUsageAlarmEveryMinute ==
    [name |-> FetchUsageAlarmName, delay |-> AlarmDelayMs, period |-> 60000]

FetchUsageAlarm ==
    [name |-> FetchUsageAlarmName, delay |-> AlarmDelayMs,
     period |-> RefreshIntervalMs]

\* chrome.alarms.clear(name): the alarm of this name, if any, is cancelled.
AlarmsClear(alarms, name) == {a \in alarms : a.name # name}

\* chrome.alarms.create(name, info): an alarm of the same name is cancelled
\* and replaced.
AlarmsCreate(alarms, a) == AlarmsClear(alarms, a.name) \cup {a}

\* storage.getLastFetchTime: usageData.lastFetchedAt || null.
GetLastFetchTime(u) == u.last

\* fetchUsageData's guard: lastFetch && Date.now() - lastFetch < MIN.
TooRecentInverted(lastFetch, t) ==
    lastFetch # NullTime /\ t - lastFetch > MinFetchIntervalMs

TooRecentInclusive(lastFetch, t) ==
    lastFetch # NullTime /\ t - lastFetch <= MinFetchIntervalMs

TooRecent(lastFetch, t) ==
    lastFetch # NullTime /\ t - lastFetch < MinFetchIntervalMs

\* --------------------------------------------------------------- renderer
\* Progress values are kept in hundredths (sessionPct / 100 is held as
\* sessionPct hundredths).
Static(s, w) == [mode |-> "static", s |-> s, w |-> w]

InitRenderer ==
    [animationInterval |-> FALSE, animationType |-> "none",
     currentProgress |-> [s |-> 0, w |-> 0],
     icon |-> [mode |-> "manifest", s |-> 0, w |-> 0],
     \* static draws issued by the most recent stopAnimation call
     staticDraws |-> 0,
     \* setInterval timers that are live
     timers |-> 0]

\* if (animationInterval) clearInterval(animationInterval): the timers left.
ClearInterval(r) == IF r.animationInterval THEN r.timers - 1 ELSE r.timers

\* stopAnimation() without arguments: the timer is cleared, nothing is drawn.
StopAnimationNoDraw(r) ==
    [r EXCEPT !.animationInterval = FALSE, !.animationType = "none",
              !.staticDraws = 0, !.timers = ClearInterval(r)]

\* stopAnimation(sessionProgress, weeklyProgress): one static draw.
StopAnimation(r, s, w) ==
    [r EXCEPT !.animationInterval = FALSE, !.animationType = "none",
              !.currentProgress = [s |-> s, w |-> w],
              !.icon = Static(s, w),
              !.staticDraws = 1, !.timers = ClearInterval(r)]

\* startAnimation(type, sessionProgress, weeklyProgress): stopAnimation(),
\* then the type, the progress and a new setInterval timer.
StartAnimationNoStop(r, type, s, w) ==
    [r EXCEPT !.animationType = type,
              !.currentProgress = [s |-> s, w |-> w],
              !.animationInterval = TRUE,
              !.timers = @ + 1]

StartAnimation(r, type, s, w) ==
    [StopAnimationNoDraw(r) EXCEPT !.animationType = type,
                                   !.currentProgress = [s |-> s, w |-> w],
                                   !.animationInterval = TRUE,
                                   !.timers = @ + 1]

\* isAnimating(): animationInterval !== null.
IsAnimating(r) == r.animationInterval

\* setAnimationProgress(sessionProgress, weeklyProgress).
SetAnimationProgress(r, s, w) == [r EXCEPT !.currentProgress = [s |-> s, w |-> w]]

\* animationFrame: the frame drawn for the running animation type.
FrameIcon(r) ==
    IF r.animationType = "pulse"
    THEN [mode |-> "pulse", s |-> r.currentProgress.s, w |-> r.currentProgress.w]
    ELSE IF r.animationType = "spin"
         THEN [mode |-> "spin", s |-> 0, w |-> 0]
         ELSE r.icon

\* refreshIcon's test for the pulse animation.
ShouldPulseStrict(s, w) == s > WarnThreshold \/ w > WarnThreshold

ShouldPulse(s, w) == s >= WarnThreshold \/ w >= WarnThreshold

\* ------------------------------------------------------------- normalizer
\* parseOrgUsageResponse: Math.min(utilization || 0, 100).
Min(a, b) == IF a < b THEN a ELSE b

\* (data.five_hour || {}).utilization || 0: a quota object the body does not
\* have counts as utilization 0.
Utilization(d, k) == IF k \in DOMAIN d THEN d[k] ELSE 0

ParseOrgUsageResponse(d) ==
    [s |-> Min(Utilization(d, "s"), 100), w |-> Min(Utilization(d, "w"), 100),
     m |-> Min(Utilization(d, "m"), 100), raw |-> {d}]

\* saveUsageData's merge: { ...existing, ...data, lastFetchedAt, fetchSource,
\* error: null }.
MergedData(existing, data, source, t) ==
    Merge(Merge(existing, data), [last |-> t, src |-> source, err |-> "none"])

\* ------------------------------------------------------------- invocations
\* One handler invocation.  kind is the listener that started it; org, rd,
\* data, src, nth and ret are the locals of the code it is running; the other
\* fields record what the invocation has done so far.
IdleProc ==
    [kind |-> "none", pc |-> "idle",
     org |-> NoOrg,                \* orgId passed to fetchFromOrgAPI
     rd |-> DefaultUsageData,      \* existingData / usageData read from storage
     data |-> [s |-> 0, w |-> 0, m |-> 0],  \* the data handed to saveUsageData
     src |-> "none",               \* the source handed to saveUsageData
     body |-> {},                  \* the quota API's response body, if parsed
     pushed |-> FALSE,             \* USAGE_DATA_UPDATED was sent
     patch |-> <<>>,               \* setSettings' parameter
     current |-> <<>>,             \* setSettings' current
     nth |-> 0,                    \* which fetchFromOrgAPI call of the attempt
     ret |-> "none",               \* who called refreshIcon
     callAt |-> NullTime,          \* Date.now() at fetchUsageData's guard
     net |-> FALSE,                \* the call issued a network request
     asked |-> FALSE,              \* the message answers a REQUEST_REFRESH
     anim |-> FALSE,               \* the call started or stopped the animation
     apiAuth |-> FALSE,            \* the quota API answered 401/403
     sawAuth |-> FALSE,            \* some request was answered 401/403
     outcome |-> "none",           \* what the call last settled with
     finalOrg |-> "unread"]        \* finalSettings.organizationId

Procs == DOMAIN procs

Active(p) == procs[p].pc # "idle"

\* A returned invocation is dropped before anything else happens.
NoneDone == \A q \in Procs : procs[q].pc # "done"

\* A new invocation takes the lowest free slot.
FreeSlot(p) == ~Active(p) /\ \A q \in Procs : q < p => Active(q)

Spawn(p, kind, pc) ==
    [procs EXCEPT ![p] = [IdleProc EXCEPT !.kind = kind, !.pc = pc]]

\* Where a handler goes when fetchUsageData returns: onInstalled and
\* onStartup go on to refreshIcon, the others are finished.
AfterFetch(rec) ==
    IF rec.kind \in {"install", "startup"}
    THEN [rec EXCEPT !.pc = "ri_read", !.ret = "handler"]
    ELSE [rec EXCEPT !.pc = "done"]

\* The strategy after a failed fetchFromOrgAPI: identity discovery after
\* the first call, the content script after the second.
AfterApiFail(rec) ==
    [rec EXCEPT !.pc = IF rec.nth = 1 THEN "disc_boot" ELSE "cs_query"]

\* The call's first network request records its call time.
LogNetCall(rec) ==
    IF rec.net THEN netCalls
    ELSE IF Len(netCalls) < 2 THEN Append(netCalls, rec.callAt)
         ELSE <<netCalls[2], rec.callAt>>

\* Date.now() when the worker starts: the snapshot a previous run left was
\* fetched one throttle interval earlier.
StartTime == MinFetchIntervalMs + AlarmDelayMs

\* The storage a previous run of the worker left: a snapshot fetched from
\* the API, the organization id and the alarm.
LeftUsageData ==
    [s |-> 40, w |-> 0, m |-> 0, raw |-> {[s |-> 40, w |-> 0, m |-> 0]},
     last |-> AlarmDelayMs, src |-> "api", err |-> "none"]

LeftSettings == SetSettings(DefaultSettings, [organizationId |-> StoredOrg])

\* The initial setup block has called refreshIcon.
InitProcs(slots) ==
    [q \in slots |->
        IF q = 1
        THEN [IdleProc EXCEPT !.kind = "init", !.pc = "ri_read",
                              !.ret = "handler"]
        ELSE IdleProc]

Init ==
    /\ now = StartTime
    /\ calls = 0
    \* a fresh profile, or the storage a previous run of the worker left
    /\ \/ /\ usageData = DefaultUsageData
          /\ settings = DefaultSettings
          /\ alarmSet = {}
       \/ /\ usageData = LeftUsageData
          /\ settings = LeftSettings
          /\ alarmSet = {FetchUsageAlarm}
    /\ renderer = InitRenderer
    /\ scrapePending = FALSE
    /\ procs = InitProcs(OneAtATime)
    /\ netCalls = <<>>

\* ------------------------------------------------------------- environment
\* The clock advances by one throttle interval.
Tick ==
    /\ NoneDone
    /\ now < StartTime + MaxTicks * MinFetchIntervalMs
    /\ now' = now + MinFetchIntervalMs
    /\ UNCHANGED <<calls, usageData, settings, alarmSet, renderer,
                   scrapePending, procs, netCalls>>

\* setInterval(animationFrame, ANIMATION_INTERVAL) fires.
AnimationFrame ==
    /\ NoneDone
    /\ renderer.animationInterval
    /\ renderer' = [renderer EXCEPT !.icon = FrameIcon(renderer)]
    /\ UNCHANGED <<now, calls, usageData, settings, alarmSet,
                   scrapePending, procs, netCalls>>

Start(kind, pc) ==
    /\ NoneDone
    /\ calls < MaxCalls
    /\ \E p \in Procs : FreeSlot(p) /\ procs' = Spawn(p, kind, pc)
    /\ calls' = calls + 1

\* chrome.runtime.onInstalled
OnInstalled ==
    /\ Start("install", "in_read")
    /\ UNCHANGED <<now, usageData, settings, alarmSet, renderer,
                   scrapePending, netCalls>>

\* chrome.runtime.onStartup
OnStartup ==
    /\ Start("startup", "sa_clear")
    /\ UNCHANGED <<now, usageData, settings, alarmSet, renderer,
                   scrapePending, netCalls>>

\* chrome.alarms.onAlarm with alarm.name = ALARMS.FETCH_USAGE
OnAlarm ==
    /\ \E a \in alarmSet : a.name = FetchUsageAlarmName
    /\ Start("alarm", "f_guard")
    /\ UNCHANGED <<now, usageData, settings, alarmSet, renderer,
                   scrapePending, netCalls>>

\* onMessage REQUEST_REFRESH
OnRequestRefresh ==
    /\ Start("manual", "f_guard")
    /\ UNCHANGED <<now, usageData, settings, alarmSet, renderer,
                   scrapePending, netCalls>>

\* onMessage SET_ORG_ID: storage.setSettings({ organizationId }) is called.
OnSetOrgId ==
    /\ Start("setorg", "so_set")
    /\ UNCHANGED <<now, usageData, settings, alarmSet, renderer,
                   scrapePending, netCalls>>

\* onMessage USAGE_DATA_SCRAPED: saveUsageData(message.data, 'scrape'), with
\* message.data one of payloads.
UsageDataScraped(payloads) ==
    /\ NoneDone
    /\ calls < MaxCalls
    /\ \E p \in Procs, d \in payloads :
          /\ FreeSlot(p)
          /\ procs' = [Spawn(p, "scraped", "sv_read") EXCEPT
                          ![p].data = d, ![p].src = "scrape",
                          ![p].asked = scrapePending]
    /\ calls' = calls + 1
    /\ scrapePending' = FALSE
    /\ UNCHANGED <<now, usageData, settings, alarmSet, renderer,
                   netCalls>>

OnUsageDataScraped == UsageDataScraped(ScrapePayloads)

\* The invocation has returned and its record is dropped.
Retire ==
    /\ \E p \in Procs :
          /\ procs[p].pc = "done"
          /\ procs' = [procs EXCEPT ![p] = IdleProc]
    /\ UNCHANGED <<now, calls, usageData, settings, alarmSet, renderer,
                   scrapePending, netCalls>>

\* ------------------------------------------------- the handlers, step by step
Step(p, rec) == procs' = [procs EXCEPT ![p] = rec]

At(p, pc) == NoneDone /\ procs[p].pc = pc

\* onInstalled: const existingData = await storage.getUsageData()
InRead(p) ==
    /\ At(p, "in_read")
    /\ Step(p, [procs[p] EXCEPT
                  !.rd = usageData,
                  !.pc = IF usageData.last = NullTime THEN "in_write"
                         ELSE "sa_clear"])
    /\ UNCHANGED <<now, calls, usageData, settings, alarmSet, renderer,
                   scrapePending, netCalls>>

\* onInstalled: await storage.setUsageData(existingData)
InWrite(p) ==
    /\ At(p, "in_write")
    /\ usageData' = SetUsageData(procs[p].rd, now)
    /\ Step(p, [procs[p] EXCEPT !.rd = DefaultUsageData, !.pc = "sa_clear"])
    /\ UNCHANGED <<now, calls, settings, alarmSet, renderer,
                   scrapePending, netCalls>>

\* setupAlarm: await chrome.alarms.clear(ALARMS.FETCH_USAGE)
SaClear(p) ==
    /\ At(p, "sa_clear")
    /\ alarmSet' = AlarmsClear(alarmSet, FetchUsageAlarmName)
    /\ Step(p, [procs[p] EXCEPT !.rd = DefaultUsageData, !.pc = "sa_create"])
    /\ UNCHANGED <<now, calls, usageData, settings, renderer,
                   scrapePending, netCalls>>

\* setupAlarm: chrome.alarms.create(ALARMS.FETCH_USAGE, ...)
SaCreate(p) ==
    /\ At(p, "sa_create")
    /\ alarmSet' = AlarmsCreate(alarmSet, FetchUsageAlarm)
    /\ Step(p, [procs[p] EXCEPT !.pc = "f_guard"])
    /\ UNCHANGED <<now, calls, usageData, settings, renderer,
                   scrapePending, netCalls>>

\* SET_ORG_ID: storage.setSettings({ organizationId: message.orgId })
SoSet(p) ==
    /\ At(p, "so_set")
    /\ settings' = SetSettings(settings, [organizationId |-> StoredOrg])
    /\ Step(p, [procs[p] EXCEPT !.pc = "f_guard"])
    /\ UNCHANGED <<now, calls, usageData, alarmSet, renderer,
                   scrapePending, netCalls>>

\* fetchUsageData: the throttle guard, then startAnimation('spin')
FetchGuard(p) ==
    /\ At(p, "f_guard")
    /\ LET lastFetch == GetLastFetchTime(usageData)
           rec == [procs[p] EXCEPT !.callAt = now]
       IN  IF TooRecent(lastFetch, now)
           THEN /\ Step(p, AfterFetch([rec EXCEPT !.outcome = "throttled"]))
                /\ UNCHANGED renderer
           ELSE /\ renderer' = StartAnimation(renderer, "spin", 0, 0)
                /\ Step(p, [rec EXCEPT !.pc = "f_settings", !.anim = TRUE])
    /\ UNCHANGED <<now, calls, usageData, settings, alarmSet,
                   scrapePending, netCalls>>

\* fetchUsageData: const settings = await storage.getSettings()
FetchSettings(p) ==
    /\ At(p, "f_settings")
    /\ Step(p, [procs[p] EXCEPT
                  !.org = settings.organizationId,
                  !.nth = IF settings.organizationId # NoOrg THEN 1 ELSE 0,
                  !.pc = IF settings.organizationId # NoOrg THEN "api_fetch"
                         ELSE "disc_boot"])
    /\ UNCHANGED <<now, calls, usageData, settings, alarmSet, renderer,
                   scrapePending, netCalls>>

\* fetchFromOrgAPI: the request and what it is answered with, one of
\* responses
FetchFromOrgAPI(p, responses) ==
    /\ At(p, "api_fetch")
    /\ netCalls' = LogNetCall(procs[p])
    /\ \E r \in responses :
          LET rec == [procs[p] EXCEPT !.net = TRUE, !.callAt = NullTime]
          IN  Step(p, CASE r.status = "ok" ->
                             [rec EXCEPT !.body = {r.body},
                                         !.data = ParseOrgUsageResponse(r.body),
                                         !.src = "api", !.pc = "sv_read"]
                        [] r.status = "auth" ->
                             [rec EXCEPT !.apiAuth = TRUE, !.sawAuth = TRUE,
                                         !.pc = "na_read"]
                        [] OTHER -> AfterApiFail(rec))
    /\ UNCHANGED <<now, calls, usageData, settings, alarmSet, renderer,
                   scrapePending>>

ApiFetch(p) == FetchFromOrgAPI(p, ApiResponses)

\* handleNotAuthenticated: const usageData = await storage.getUsageData()
NaRead(p) ==
    /\ At(p, "na_read")
    /\ Step(p, [procs[p] EXCEPT !.rd = usageData, !.pc = "na_write"])
    /\ UNCHANGED <<now, calls, usageData, settings, alarmSet, renderer,
                   scrapePending, netCalls>>

\* handleNotAuthenticated: error, lastFetchedAt, storage.setUsageData
NaWrite(p) ==
    /\ At(p, "na_write")
    /\ usageData' = SetUsageData(ErrorRecord(procs[p].rd, "not_authenticated",
                                             now), now)
    /\ Step(p, [procs[p] EXCEPT !.rd = DefaultUsageData,
                                !.outcome = "not_authenticated",
                                !.pc = "na_stop"])
    /\ UNCHANGED <<now, calls, settings, alarmSet, renderer,
                   scrapePending, netCalls>>

\* handleNotAuthenticated: await stopAnimation(0, 0); fetchFromOrgAPI
\* returns false and fetchUsageData goes on with the next strategy
NaStop(p) ==
    /\ At(p, "na_stop")
    /\ renderer' = StopAnimation(renderer, 0, 0)
    /\ Step(p, AfterApiFail([procs[p] EXCEPT !.anim = TRUE]))
    /\ UNCHANGED <<now, calls, usageData, settings, alarmSet,
                   scrapePending, netCalls>>

\* saveUsageData: const existingData = await storage.getUsageData()
SvRead(p) ==
    /\ At(p, "sv_read")
    /\ Step(p, [procs[p] EXCEPT !.rd = usageData, !.pc = "sv_write"])
    /\ UNCHANGED <<now, calls, usageData, settings, alarmSet, renderer,
                   scrapePending, netCalls>>

\* saveUsageData: await storage.setUsageData(mergedData)
SvWrite(p) ==
    /\ At(p, "sv_write")
    /\ usageData' = SetUsageData(MergedData(procs[p].rd, procs[p].data,
                                            procs[p].src, now), now)
    /\ Step(p, [procs[p] EXCEPT !.rd = DefaultUsageData,
                                !.data = IdleProc.data,
                                !.body = {},
                                !.asked = FALSE,
                                !.outcome = "success",
                                !.pc = "ri_read", !.ret = "save"])
    /\ UNCHANGED <<now, calls, settings, alarmSet, renderer,
                   scrapePending, netCalls>>

\* refreshIcon: const usageData = await storage.getUsageData()
RiRead(p) ==
    /\ At(p, "ri_read")
    /\ Step(p, [procs[p] EXCEPT !.rd = usageData, !.pc = "ri_stop"])
    /\ UNCHANGED <<now, calls, usageData, settings, alarmSet, renderer,
                   scrapePending, netCalls>>

\* refreshIcon: await stopAnimation(sessionProgress, weeklyProgress)
RiStop(p) ==
    /\ At(p, "ri_stop")
    /\ renderer' = StopAnimation(renderer, procs[p].rd.s, procs[p].rd.w)
    /\ Step(p, [procs[p] EXCEPT
                  !.anim = procs[p].anim \/ procs[p].ret = "save",
                  !.pc = "ri_start"])
    /\ UNCHANGED <<now, calls, usageData, settings, alarmSet,
                   scrapePending, netCalls>>

\* refreshIcon: startAnimation('pulse', ...) for high usage, and the return
\* to the caller: saveUsageData (which sends USAGE_DATA_UPDATED and returns
\* to fetchFromOrgAPI or to the USAGE_DATA_SCRAPED handler), the initial
\* setup block (which calls fetchUsageData next), onInstalled or onStartup
RiStart(p) ==
    /\ At(p, "ri_start")
    /\ renderer' = IF ShouldPulse(procs[p].rd.s, procs[p].rd.w)
                   THEN StartAnimation(renderer, "pulse",
                                       procs[p].rd.s, procs[p].rd.w)
                   ELSE renderer
    /\ LET rec == [procs[p] EXCEPT
                      !.rd = DefaultUsageData, !.ret = "none",
                      !.pushed = procs[p].pushed \/ procs[p].ret = "save"]
       IN  Step(p, CASE procs[p].ret = "save" /\ procs[p].kind # "scraped" ->
                          AfterFetch(rec)
                     [] procs[p].ret = "handler" /\ procs[p].kind = "init" ->
                          [rec EXCEPT !.pc = "f_guard"]
                     [] OTHER -> [rec EXCEPT !.pc = "done"])
    /\ UNCHANGED <<now, calls, usageData, settings, alarmSet,
                   scrapePending, netCalls>>

\* fetchOrganizationId: the /bootstrap request
DiscBoot(p) ==
    /\ At(p, "disc_boot")
    /\ netCalls' = LogNetCall(procs[p])
    /\ \E r \in BootResponses :
          LET rec == [procs[p] EXCEPT !.net = TRUE, !.callAt = NullTime,
                                      !.sawAuth = procs[p].sawAuth \/ r = "auth"]
          IN  Step(p, CASE r = "org" ->
                             [rec EXCEPT !.org = FoundOrg, !.pc = "ds_set"]
                        [] r = "throw" -> [rec EXCEPT !.pc = "cs_query"]
                        [] OTHER -> [rec EXCEPT !.pc = "disc_acct"])
    /\ UNCHANGED <<now, calls, usageData, settings, alarmSet, renderer,
                   scrapePending>>

\* fetchOrganizationId: the /account request
DiscAcct(p) ==
    /\ At(p, "disc_acct")
    /\ \E r \in AccountResponses :
          LET rec == [procs[p] EXCEPT !.sawAuth = procs[p].sawAuth \/ r = "auth"]
          IN  Step(p, IF r = "org"
                      THEN [rec EXCEPT !.org = FoundOrg, !.pc = "ds_set"]
                      ELSE [rec EXCEPT !.pc = "cs_query"])
    /\ UNCHANGED <<now, calls, usageData, settings, alarmSet, renderer,
                   scrapePending, netCalls>>

\* fetchUsageData: await storage.setSettings({ organizationId: orgId }),
\* then the second fetchFromOrgAPI
DsSet(p) ==
    /\ At(p, "ds_set")
    /\ settings' = SetSettings(settings, [organizationId |-> procs[p].org])
    /\ Step(p, [procs[p] EXCEPT !.nth = 2, !.pc = "api_fetch"])
    /\ UNCHANGED <<now, calls, usageData, alarmSet, renderer,
                   scrapePending, netCalls>>

\* triggerContentScript: the tabs found, and the refresh message or the
\* navigation sent to one of them; it returns once that is dispatched
CsQuery(p) ==
    /\ At(p, "cs_query")
    /\ \E tabs \in TabStates : scrapePending' = (scrapePending \/ tabs # "none")
    /\ Step(p, [procs[p] EXCEPT !.pc = "fin_settings"])
    /\ UNCHANGED <<now, calls, usageData, settings, alarmSet, renderer,
                   netCalls>>

\* fetchUsageData: if (!finalSettings.organizationId)
NeedsSetupAlways(finalSettings) == TRUE

NeedsSetup(finalSettings) == finalSettings.organizationId = NoOrg

\* fetchUsageData: const finalSettings = await storage.getSettings()
FinSettings(p) ==
    /\ At(p, "fin_settings")
    /\ LET rec == [procs[p] EXCEPT !.finalOrg = settings.organizationId]
       IN  Step(p, IF NeedsSetup(settings)
                   THEN [rec EXCEPT !.pc = "ns_read"]
                   ELSE AfterFetch([rec EXCEPT
                            !.outcome = IF rec.outcome = "none"
                                        THEN "exhausted" ELSE rec.outcome]))
    /\ UNCHANGED <<now, calls, usageData, settings, alarmSet, renderer,
                   scrapePending, netCalls>>

\* fetchUsageData: const usageData = await storage.getUsageData()
NsRead(p) ==
    /\ At(p, "ns_read")
    /\ Step(p, [procs[p] EXCEPT !.rd = usageData, !.pc = "ns_write"])
    /\ UNCHANGED <<now, calls, usageData, settings, alarmSet, renderer,
                   scrapePending, netCalls>>

\* fetchUsageData: error = 'needs_setup', lastFetchedAt, storage.setUsageData
NsWrite(p) ==
    /\ At(p, "ns_write")
    /\ usageData' = SetUsageData(ErrorRecord(procs[p].rd, "needs_setup", now),
                                 now)
    /\ Step(p, [procs[p] EXCEPT !.rd = DefaultUsageData,
                                !.outcome = "needs_setup", !.pc = "ns_stop"])
    /\ UNCHANGED <<now, calls, settings, alarmSet, renderer,
                   scrapePending, netCalls>>

\* fetchUsageData: await stopAnimation(0, 0), and the return
NsStop(p) ==
    /\ At(p, "ns_stop")
    /\ renderer' = StopAnimation(renderer, 0, 0)
    /\ Step(p, AfterFetch(procs[p]))
    /\ UNCHANGED <<now, calls, usageData, settings, alarmSet,
                   scrapePending, netCalls>>

Next ==
    \/ Tick
    \/ AnimationFrame
    \/ OnInstalled
    \/ OnStartup
    \/ OnAlarm
    \/ OnRequestRefresh
    \/ OnSetOrgId
    \/ OnUsageDataScraped
    \/ Retire
    \/ \E p \in Procs : InRead(p)
    \/ \E p \in Procs : InWrite(p)
    \/ \E p \in Procs : SaClear(p)
    \/ \E p \in Procs : SaCreate(p)
    \/ \E p \in Procs : SoSet(p)
    \/ \E p \in Procs : FetchGuard(p)
    \/ \E p \in Procs : FetchSettings(p)
    \/ \E p \in Procs : ApiFetch(p)
    \/ \E p \in Procs : NaRead(p)
    \/ \E p \in Procs : NaWrite(p)
    \/ \E p \in Procs : NaStop(p)
    \/ \E p \in Procs : SvRead(p)
    \/ \E p \in Procs : SvWrite(p)
    \/ \E p \in Procs : RiRead(p)
    \/ \E p \in Procs : RiStop(p)
    \/ \E p \in Procs : RiStart(p)
    \/ \E p \in Procs : DiscBoot(p)
    \/ \E p \in Procs : DiscAcct(p)
    \/ \E p \in Procs : DsSet(p)
    \/ \E p \in Procs : CsQuery(p)
    \/ \E p \in Procs : FinSettings(p)
    \/ \E p \in Procs : NsRead(p)
    \/ \E p \in Procs : NsWrite(p)
    \/ \E p \in Procs : NsStop(p)

\* Handlers run one after the other: procs has one slot, so an event is
\* dispatched only after the handler before it has returned.
Spec == Init /\ [][Next]_vars

\* ------------------------------------------------------ overlapping handlers
\* The worker is woken with the storage a previous run left; the alarm and
\* the popup's and the content script's messages are dispatched while other
\* handlers are suspended.  The clock stands still: the handlers overlap
\* within one throttle interval.
OverlapInit ==
    /\ now = StartTime
    /\ calls = 0
    /\ usageData = LeftUsageData
    /\ settings = LeftSettings
    /\ alarmSet = {FetchUsageAlarm}
    /\ renderer = InitRenderer
    /\ scrapePending = FALSE
    /\ procs = InitProcs(Overlapping)
    /\ netCalls = <<>>

OverlapNext ==
    \/ AnimationFrame
    \/ OnAlarm
    \/ OnRequestRefresh
    \/ OnUsageDataScraped
    \/ Retire
    \/ \E p \in Procs : FetchGuard(p)
    \/ \E p \in Procs : FetchSettings(p)
    \/ \E p \in Procs : ApiFetch(p)
    \/ \E p \in Procs : NaRead(p)
    \/ \E p \in Procs : NaWrite(p)
    \/ \E p \in Procs : NaStop(p)
    \/ \E p \in Procs : SvRead(p)
    \/ \E p \in Procs : SvWrite(p)
    \/ \E p \in Procs : RiRead(p)
    \/ \E p \in Procs : RiStop(p)
    \/ \E p \in Procs : RiStart(p)
    \/ \E p \in Procs : DiscBoot(p)
    \/ \E p \in Procs : DiscAcct(p)
    \/ \E p \in Procs : DsSet(p)
    \/ \E p \in Procs : CsQuery(p)
    \/ \E p \in Procs : FinSettings(p)

OverlapSpec == OverlapInit /\ [][OverlapNext]_vars

\* ------------------------------------------------- payloads of any magnitude
\* Raw utilization values: below 0, in range, above 100.
RawValues == {-5, 50, 130}

WideApiPayloads == [s : RawValues, w : RawValues, m : RawValues]

WideApiResponses == {[status |-> "ok", body |-> d] : d \in WideApiPayloads}

\* extractPercentage: parseFloat of the digits before a % sign, so 0 or
\* more and of any size.
ScrapedValues == {40, 250}

WideScrapePayloads ==
    {[s |-> x, w |-> y, m |-> 0] : x \in ScrapedValues, y \in ScrapedValues}

WideApiFetch(p) == FetchFromOrgAPI(p, WideApiResponses)

WideUsageDataScraped == UsageDataScraped(WideScrapePayloads)

\* The worker is woken with the storage a previous run left and an
\* organization id stored; the quota API answers 2xx.
PayloadInit ==
    /\ now = StartTime
    /\ calls = 0
    /\ usageData = LeftUsageData
    /\ settings = LeftSettings
    /\ alarmSet = {FetchUsageAlarm}
    /\ renderer = InitRenderer
    /\ scrapePending = FALSE
    /\ procs = InitProcs(OneAtATime)
    /\ netCalls = <<>>

PayloadNext ==
    \/ Tick
    \/ AnimationFrame
    \/ OnAlarm
    \/ WideUsageDataScraped
    \/ Retire
    \/ \E p \in Procs : FetchGuard(p)
    \/ \E p \in Procs : FetchSettings(p)
    \/ \E p \in Procs : WideApiFetch(p)
    \/ \E p \in Procs : SvRead(p)
    \/ \E p \in Procs : SvWrite(p)
    \/ \E p \in Procs : RiRead(p)
    \/ \E p \in Procs : RiStop(p)
    \/ \E p \in Procs : RiStart(p)

PayloadSpec == PayloadInit /\ [][PayloadNext]_vars

\* ------------------------------------------------------ the settings helper
\* storage.setSettings called with any selection of keys, on any stored
\* settings object.
SettingsKeys == {"organizationId", "theme", "language"}

Restrict(f, K) == [k \in K |-> f[k]]

StoredSettings ==
    {Restrict(f, K) :
        f \in [organizationId : {StoredOrg}, theme : {"dark", "light"},
                language : {"en", "fr"}],
        K \in SUBSET SettingsKeys}

SettingsPatches ==
    {Restrict(f, K) :
        f \in [organizationId : {StoredOrg, FoundOrg},
                theme : {"dark", "light"}, language : {"en", "fr"}],
        K \in SUBSET SettingsKeys}

\* setSettings(settings) is called
SetSettingsCall ==
    /\ NoneDone
    /\ calls < MaxCalls
    /\ \E p \in Procs, s \in SettingsPatches :
          /\ FreeSlot(p)
          /\ procs' = [Spawn(p, "settings", "ss_read") EXCEPT ![p].patch = s]
    /\ calls' = calls + 1
    /\ UNCHANGED <<now, usageData, settings, alarmSet, renderer,
                   scrapePending, netCalls>>

\* setSettings: const current = await getSettings()
SsRead(p) ==
    /\ At(p, "ss_read")
    /\ Step(p, [procs[p] EXCEPT !.current = GetSettings(settings),
                                !.pc = "ss_write"])
    /\ UNCHANGED <<now, calls, usageData, settings, alarmSet, renderer,
                   scrapePending, netCalls>>

\* setSettings: set({ settings: { ...current, ...settings } })
SsWrite(p) ==
    /\ At(p, "ss_write")
    /\ settings' = SetSettings(procs[p].current, procs[p].patch)
    /\ Step(p, [procs[p] EXCEPT !.pc = "done"])
    /\ UNCHANGED <<now, calls, usageData, alarmSet, renderer,
                   scrapePending, netCalls>>

SettingsInit ==
    /\ now = StartTime
    /\ calls = 0
    /\ usageData = DefaultUsageData
    /\ settings \in StoredSettings
    /\ alarmSet = {}
    /\ renderer = InitRenderer
    /\ scrapePending = FALSE
    /\ procs = [q \in OneAtATime |-> IdleProc]
    /\ netCalls = <<>>

SettingsNext ==
    \/ SetSettingsCall
    \/ Retire
    \/ \E p \in Procs : SsRead(p)
    \/ \E p \in Procs : SsWrite(p)

SettingsSpec == SettingsInit /\ [][SettingsNext]_vars

\* ------------------------------------------- the normalizer's model entry
\* Strings whose characters the code inspects are kept as tuples of
\* characters.
LowerCase ==
    <<"a", "b", "c", "d", "e", "f", "g", "h", "i", "j", "k", "l", "m",
      "n", "o", "p", "q", "r", "s", "t", "u", "v", "w", "x", "y", "z">>

UpperCase ==
    <<"A", "B", "C", "D", "E", "F", "G", "H", "I", "J", "K", "L", "M",
      "N", "O", "P", "Q", "R", "S", "T", "U", "V", "W", "X", "Y", "Z">>

\* c.toUpperCase() of one character
ToUpperCase(c) ==
    IF \E i \in DOMAIN LowerCase : LowerCase[i] = c
    THEN UpperCase[CHOOSE i \in DOMAIN LowerCase : LowerCase[i] = c]
    ELSE c

\* name.charAt(0).toUpperCase() + name.slice(1)
Capitalize(name) ==
    IF name = <<>> THEN <<>> ELSE <<ToUpperCase(Head(name))>> \o Tail(name)

\* What follows seven_day_ in the keys of the per-model limits.
Opus == <<"o", "p", "u", "s">>
Sonnet == <<"s", "o", "n", "n", "e", "t">>
Haiku == <<"h", "a", "i", "k", "u">>
Cowork == <<"c", "o", "w", "o", "r", "k">>
OauthApps == <<"o", "a", "u", "t", "h", "_", "a", "p", "p", "s">>

ModelKeys == {Opus, Sonnet, Haiku, Cowork, OauthApps}

\* resets_at as the API may send it: missing, an ISO-8601 instant, or a
\* string that is no date.
NoResetsAt == ""
IsoInstant == "2026-01-01T00:00:00.000Z"
NotADate == "soon"

\* The value of a seven_day_* key: null, or a limit object.
NullLimit == [null |-> TRUE, utilization |-> 0, resets_at |-> NoResetsAt]

LimitObjects ==
    [null : {FALSE}, utilization : {30},
     resets_at : {NoResetsAt, IsoInstant, NotADate}]

MaxModelFields == 2

\* The seven_day_* entries of a response body, in the order Object.keys
\* lists them: each key at most once.
ModelFieldLists ==
    {f \in UNION {[1..n -> [key : ModelKeys,
                            value : {NullLimit} \cup LimitObjects]] :
                     n \in 0..MaxModelFields} :
        \A i, j \in DOMAIN f : i # j => f[i].key # f[j].key}

\* A value in a condition: null is falsy, an object is truthy.
Truthy(v) == ~v.null

\* new Date(text).getTime(): the instant's epoch time (held in minutes:
\* 1767225600000 ms), or NaN when the text is no date.
NullNumber == [is |-> "null", minutes |-> 0]
NaN == [is |-> "NaN", minutes |-> 0]

DateGetTime(text) ==
    IF text = IsoInstant THEN [is |-> "number", minutes |-> 29453760]
    ELSE NaN

\* x.resets_at ? new Date(x.resets_at).getTime() : null, with x possibly
\* null (modelLimit?.resets_at).
ResetTimestamp(x) ==
    IF Truthy(x) /\ x.resets_at # NoResetsAt THEN DateGetTime(x.resets_at)
    ELSE NullNumber

\* parseOrgUsageResponse, the model-specific limit: the if / else if chain
\* over seven_day_opus, seven_day_sonnet and seven_day_haiku, then the
\* first seven_day_* key; modelName is <<>> when it stays null.
SelectModelLimit(fields) ==
    LET Has(k) == \E i \in DOMAIN fields :
                     fields[i].key = k /\ Truthy(fields[i].value)
        Get(k) == fields[CHOOSE i \in DOMAIN fields : fields[i].key = k].value
    IN  IF Has(Opus)
        THEN [modelLimit |-> Get(Opus), modelName |-> <<"O", "p", "u", "s">>]
        ELSE IF Has(Sonnet)
        THEN [modelLimit |-> Get(Sonnet),
              modelName |-> <<"S", "o", "n", "n", "e", "t">>]
        ELSE IF Has(Haiku)
        THEN [modelLimit |-> Get(Haiku),
              modelName |-> <<"H", "a", "i", "k", "u">>]
        ELSE IF Len(fields) > 0
        THEN [modelLimit |-> fields[1].value,
              modelName |-> Capitalize(fields[1].key)]
        ELSE [modelLimit |-> NullLimit, modelName |-> <<>>]

\* parseOrgUsageResponse, weeklyLimits.modelSpecific of the result.
ModelSpecific(fields) ==
    LET sel == SelectModelLimit(fields)
    IN  [percentage |-> IF Truthy(sel.modelLimit)
                        THEN Min(sel.modelLimit.utilization, 100) ELSE 0,
         resetTimestamp |-> ResetTimestamp(sel.modelLimit),
         modelName |-> sel.modelName]

\* parseOrgUsageResponse(data) is called on a body with the entries f
ParseModelSpecificCall ==
    /\ NoneDone
    /\ calls < MaxCalls
    /\ \E p \in Procs, f \in ModelFieldLists :
          /\ FreeSlot(p)
          /\ procs' = [Spawn(p, "parse", "done") EXCEPT
                          ![p].body = {f}, ![p].data = ModelSpecific(f)]
    /\ calls' = calls + 1
    /\ UNCHANGED <<now, usageData, settings, alarmSet, renderer,
                   scrapePending, netCalls>>

NormalizerInit ==
    /\ now = StartTime
    /\ calls = 0
    /\ usageData = DefaultUsageData
    /\ settings = DefaultSettings
    /\ alarmSet = {}
    /\ renderer = InitRenderer
    /\ scrapePending = FALSE
    /\ procs = [q \in OneAtATime |-> IdleProc]
    /\ netCalls = <<>>

NormalizerNext ==
    \/ ParseModelSpecificCall
    \/ Retire

NormalizerSpec == NormalizerInit /\ [][NormalizerNext]_vars

\* ------------------------------------------------ bodies of another shape
\* A 2xx body that has none of the quota objects, e.g. {}.
EmptyBody == [k \in {} |-> 0]

ShapeResponses ==
    {[status |-> "ok", body |-> d] : d \in ApiPayloads \cup {EmptyBody}}

ShapeApiFetch(p) == FetchFromOrgAPI(p, ShapeResponses)

\* The worker is woken with the storage a previous run left and an
\* organization id stored; the quota API answers 2xx, with a usage body or
\* with a body of another shape.
ShapeNext ==
    \/ Tick
    \/ AnimationFrame
    \/ OnAlarm
    \/ Retire
    \/ \E p \in Procs : FetchGuard(p)
    \/ \E p \in Procs : FetchSettings(p)
    \/ \E p \in Procs : ShapeApiFetch(p)
    \/ \E p \in Procs : SvRead(p)
    \/ \E p \in Procs : SvWrite(p)
    \/ \E p \in Procs : RiRead(p)
    \/ \E p \in Procs : RiStop(p)
    \/ \E p \in Procs : RiStart(p)

ShapeSpec == PayloadInit /\ [][ShapeNext]_vars

\* ------------------------------------------------------- the ring colours
\* COLORS.progress
ProgressColors ==
    [low |-> "#22c55e", medium |-> "#eab308", high |-> "#f97316",
     critical |-> "#ef4444"]

\* getProgressColor(percentage): percent = percentage * 100 is the number
\* of hundredths the progress is held as.
GetProgressColorAt75(progress) ==
    LET percent == progress
    IN  IF percent < 50 THEN ProgressColors.low
        ELSE IF percent < 75 THEN ProgressColors.medium
        ELSE IF percent < 90 THEN ProgressColors.high
        ELSE ProgressColors.critical

GetProgressColor(progress) ==
    LET percent == progress
    IN  IF percent < 50 THEN ProgressColors.low
        ELSE IF percent < 70 THEN ProgressColors.medium
        ELSE IF percent < 90 THEN ProgressColors.high
        ELSE ProgressColors.critical

\* The progress of a ring with a usage of 0% to 100%.
ProgressValues == 0..100

\* getProgressColor is called for a ring
GetProgressColorCall ==
    /\ NoneDone
    /\ calls < MaxCalls
    /\ \E p \in Procs, x \in ProgressValues :
          /\ FreeSlot(p)
          /\ procs' = [Spawn(p, "color", "done") EXCEPT
                          ![p].body = {x},
                          ![p].data = [color |-> GetProgressColor(x)]]
    /\ calls' = calls + 1
    /\ UNCHANGED <<now, usageData, settings, alarmSet, renderer,
                   scrapePending, netCalls>>

ColorNext ==
    \/ GetProgressColorCall
    \/ Retire

ColorSpec == NormalizerInit /\ [][ColorNext]_vars

\* ---------------------------------------------------------------- the rings
\* One ring of a drawn icon: the background track alone, a progress arc of
\* length hundredths of the circle, or the spinner's arc.
TrackOnly == [arc |-> "none", length |-> 0, color |-> "none"]

ProgressArc(progress) ==
    IF progress > 0
    THEN [arc |-> "progress", length |-> Min(progress, 100),
          color |-> GetProgressColor(progress)]
    ELSE TrackOnly

\* drawDualProgressRing(size, sessionProgress, weeklyProgress, options): what
\* is stroked at outerRadius and at innerRadius.
DrawDualProgressRing(sessionProgress, weeklyProgress, showSpinner) ==
    IF showSpinner
    THEN [outer |-> [arc |-> "spinner", length |-> 30, color |-> "accent"],
          inner |-> TrackOnly]
    ELSE [outer |-> ProgressArc(sessionProgress),
          inner |-> ProgressArc(weeklyProgress)]

\* updateIcon(sessionProgress, weeklyProgress, options): the image set as the
\* toolbar icon by a static draw or an animation frame.
IconRings(icon) == DrawDualProgressRing(icon.s, icon.w, icon.mode = "spin")

\* ------------------------------------------------------ handlers that go on
\* An await of a suspended handler completes: the storage call or the
\* request it waits for is answered (a request with one of its outcomes) and
\* the handler runs its next segment.
Resume ==
    \E p \in Procs :
        \E step \in {"f_guard", "f_settings", "api_fetch", "disc_boot"} :
            /\ procs[p].pc = step
            /\ CASE step = "f_guard" -> FetchGuard(p)
                 [] step = "f_settings" -> FetchSettings(p)
                 [] step = "api_fetch" -> ApiFetch(p)
                 [] OTHER -> DiscBoot(p)

FairSpec == Spec /\ WF_vars(Resume)

\* ------------------------------------------------- strategies that all fail
\* The quota API fails (a non-2xx other than 401/403, or the request threw)
\* or answers 2xx with a body of another shape.
TransientResponses ==
    {[status |-> "fail", body |-> [s |-> 0, w |-> 0, m |-> 0]],
     [status |-> "ok", body |-> EmptyBody]}

TransientApiFetch(p) == FetchFromOrgAPI(p, TransientResponses)

\* The worker is woken with the storage a previous run left and an
\* organization id stored; the alarm starts attempts whose quota calls never
\* deliver a usage body.
TransientNext ==
    \/ Tick
    \/ AnimationFrame
    \/ OnAlarm
    \/ Retire
    \/ \E p \in Procs : FetchGuard(p)
    \/ \E p \in Procs : FetchSettings(p)
    \/ \E p \in Procs : TransientApiFetch(p)
    \/ \E p \in Procs : SvRead(p)
    \/ \E p \in Procs : SvWrite(p)
    \/ \E p \in Procs : RiRead(p)
    \/ \E p \in Procs : RiStop(p)
    \/ \E p \in Procs : RiStart(p)
    \/ \E p \in Procs : DiscBoot(p)
    \/ \E p \in Procs : DiscAcct(p)
    \/ \E p \in Procs : DsSet(p)
    \/ \E p \in Procs : CsQuery(p)
    \/ \E p \in Procs : FinSettings(p)

TransientSpec == PayloadInit /\ [][TransientNext]_vars

\* ---------------------------------------------------- extraction from HTML
\* A page is the sequence of its percentage tokens in document order.  A
\* token is a number before a % sign that is followed by utilisé(s) or used
\* ("used"), followed by (of) limit or quota ("limit"), inside
\* style="width: N%" ("width"), or none of these ("bare").
TokenKinds == {"used", "limit", "width", "bare"}

TokenValues == {39, 22}

Tokens == [kind : TokenKinds, value : TokenValues]

MaxTokens == 3

\* "39% utilisés", "22% of limit" and the token "5%" eight times.
NoisyPage ==
    <<[kind |-> "used", value |-> 39], [kind |-> "limit", value |-> 22]>>
    \o [i \in 1..8 |-> [kind |-> "bare", value |-> 5]]

HtmlPages ==
    UNION {[1..n -> Tokens] : n \in 0..MaxTokens} \cup {NoisyPage}

\* while ((match = pattern.exec(html)) !== null) push(parseInt(match[1])):
\* the values of the tokens a pattern matches, in document order.
RECURSIVE MatchValues(_, _)
MatchValues(html, kinds) ==
    IF html = <<>> THEN <<>>
    ELSE (IF Head(html).kind \in kinds THEN <<Head(html).value>> ELSE <<>>)
         \o MatchValues(Tail(html), kinds)

\* percentages[i] || 0
ValueAt(percentages, i) ==
    IF i <= Len(percentages) THEN percentages[i] ELSE 0

\* extractUsageFromHTML: usedValues collects the matches of the first
\* pattern, then those of the second; widthValues the progress-bar widths;
\* the result's percentages are assigned by position.
ExtractUsageFromHTML(html) ==
    LET usedValues == MatchValues(html, {"used"}) \o MatchValues(html, {"limit"})
        widthValues == MatchValues(html, {"width"})
        percentages == IF Len(usedValues) >= 3 THEN usedValues
                       ELSE widthValues
    IN  [s |-> ValueAt(percentages, 1), w |-> ValueAt(percentages, 2),
         m |-> ValueAt(percentages, 3)]

\* extractUsageFromHTML(html) is called on a page
ExtractUsageFromHTMLCall ==
    /\ NoneDone
    /\ calls < MaxCalls
    /\ \E p \in Procs, html \in HtmlPages :
          /\ FreeSlot(p)
          /\ procs' = [Spawn(p, "extract", "done") EXCEPT
                          ![p].body = {html},
                          ![p].data = ExtractUsageFromHTML(html)]
    /\ calls' = calls + 1
    /\ UNCHANGED <<now, usageData, settings, alarmSet, renderer,
                   scrapePending, netCalls>>

ExtractNext ==
    \/ ExtractUsageFromHTMLCall
    \/ Retire

ExtractSpec == NormalizerInit /\ [][ExtractNext]_vars

\* ------------------------------------------------------ the renderer alone
\* The exported functions of icon-renderer.js called in any order, with any
\* of these progress values.
ProgressInputs == {0, 40, 80}

AnimationTypes == {"spin", "pulse"}

\* startAnimation(type, sessionProgress, weeklyProgress) is called
StartAnimationCall ==
    /\ \E type \in AnimationTypes, s \in ProgressInputs, w \in ProgressInputs :
          renderer' = StartAnimation(renderer, type, s, w)
    /\ UNCHANGED <<now, calls, usageData, settings, alarmSet,
                   scrapePending, procs, netCalls>>

\* stopAnimation() is called
StopAnimationBareCall ==
    /\ renderer' = StopAnimationNoDraw(renderer)
    /\ UNCHANGED <<now, calls, usageData, settings, alarmSet,
                   scrapePending, procs, netCalls>>

\* stopAnimation(sessionProgress, weeklyProgress) is called
StopAnimationCall ==
    /\ \E s \in ProgressInputs, w \in ProgressInputs :
          renderer' = StopAnimation(renderer, s, w)
    /\ UNCHANGED <<now, calls, usageData, settings, alarmSet,
                   scrapePending, procs, netCalls>>

\* setAnimationProgress(sessionProgress, weeklyProgress) is called
SetAnimationProgressCall ==
    /\ \E s \in ProgressInputs, w \in ProgressInputs :
          renderer' = SetAnimationProgress(renderer, s, w)
    /\ UNCHANGED <<now, calls, usageData, settings, alarmSet,
                   scrapePending, procs, netCalls>>

RendererNext ==
    \/ StartAnimationCall
    \/ StopAnimationBareCall
    \/ StopAnimationCall
    \/ SetAnimationProgressCall
    \/ AnimationFrame

RendererSpec == NormalizerInit /\ [][RendererNext]_vars

\* ------------------------------------------------ the content script's reports
\* scrapeAndSend's message.data when the page shows no logged-in user
NotLoggedInData == [err |-> "not_authenticated"]

ScrapeReports == ScrapePayloads \cup {NotLoggedInData}

ReportedUsageDataScraped == UsageDataScraped(ScrapeReports)

\* The quota API answers 2xx.
OkResponses == {[status |-> "ok", body |-> d] : d \in ApiPayloads}

OkApiFetch(p) == FetchFromOrgAPI(p, OkResponses)

\* The worker is woken with the storage a previous run left and an
\* organization id stored; the content script of an open claude.ai page
\* sends what scrapeAndSend found.
ReportNext ==
    \/ Tick
    \/ AnimationFrame
    \/ OnAlarm
    \/ ReportedUsageDataScraped
    \/ Retire
    \/ \E p \in Procs : FetchGuard(p)
    \/ \E p \in Procs : FetchSettings(p)
    \/ \E p \in Procs : OkApiFetch(p)
    \/ \E p \in Procs : SvRead(p)
    \/ \E p \in Procs : SvWrite(p)
    \/ \E p \in Procs : RiRead(p)
    \/ \E p \in Procs : RiStop(p)
    \/ \E p \in Procs : RiStart(p)

ReportSpec == PayloadInit /\ [][ReportNext]_vars

\* ------------------------------------------------------------------ claims
InChain(p) ==
    procs[p].pc \in {"f_settings", "api_fetch", "na_read", "na_write",
                     "na_stop", "sv_read", "sv_write", "disc_boot",
                     "disc_acct", "ds_set", "cs_query", "fin_settings",
                     "ns_read", "ns_write", "ns_stop"}
    \/ (procs[p].pc \in {"ri_read", "ri_stop", "ri_start"}
        /\ procs[p].ret = "save")

\* The throttle window: a fetch was recorded less than minFetchIntervalMs
\* before t.
InsideWindow(lastFetchedAt, t) ==
    lastFetchedAt # NullTime /\ t - lastFetchedAt < MinFetchIntervalMs

\* C1: a fetchUsageData call made inside the throttle window returns at once:
\* the step that evaluates its guard issues no network request, writes
\* neither usageData nor settings and leaves the animation state as it was,
\* whichever handler made the call.
C1_ThrottledCallIsNoOp ==
    [][\A p \in Procs :
          (/\ procs[p].pc = "f_guard"
           /\ procs'[p].pc # "f_guard"
           /\ InsideWindow(usageData.last, now))
          => /\ usageData' = usageData
             /\ settings' = settings
             /\ renderer' = renderer
             /\ netCalls' = netCalls
             /\ ~procs'[p].net
             /\ procs'[p].pc \in {"done", "ri_read"}]_vars

\* A SET_ORG_ID handler whose fetchUsageData call was throttled has returned.
C1_Witness ==
    \E p \in Procs :
        /\ procs[p].kind = "setorg"
        /\ procs[p].pc = "done"
        /\ procs[p].outcome = "throttled"
        /\ InsideWindow(usageData.last, now)

\* C2: of two fetchUsageData calls made within minFetchIntervalMs of each
\* other, at most one issues network requests.
C2_OneNetworkAttemptPerWindow ==
    Len(netCalls) = 2 => netCalls[2] - netCalls[1] >= MinFetchIntervalMs

\* C3: while an alarm-triggered fetchUsageData is in its strategy chain, a
\* REQUEST_REFRESH does not run the chain a second time: the two never both
\* have network requests under way.
C3_NoSecondChainRun ==
    \A p, q \in Procs :
        (procs[p].kind = "alarm" /\ procs[q].kind = "manual")
        => ~(InChain(p) /\ InChain(q) /\ procs[p].net /\ procs[q].net)

\* C4: once the quota API has answered 401/403, the attempt takes no further
\* strategy step: no discovery request, no second quota request, no scrape
\* dispatch.
C4_ChainStopsOnAuthRequired ==
    \A p \in Procs :
        procs[p].apiAuth
        => procs[p].pc \notin {"disc_boot", "disc_acct", "ds_set",
                               "api_fetch", "cs_query"}

\* C5: an attempt in which some request was answered 401/403 ends with
\* error = not_authenticated stored.
C5_AuthAnswerEndsNotAuthenticated ==
    \A p \in Procs :
        (procs[p].pc = "done" /\ procs[p].sawAuth)
        => usageData.err = "not_authenticated"

C7_LoadingEnds ==
    \A p \in Procs :
        (procs[p].pc = "done" /\ procs[p].anim)
        => renderer.animationType # "spin"

\* C8: when a handler whose attempt settled with not_authenticated has
\* returned, both rings are drawn at 0 and no animation runs.
C8_NotAuthenticatedShowsEmptyRings ==
    \A p \in Procs :
        (procs[p].pc = "done" /\ procs[p].outcome = "not_authenticated")
        => /\ renderer.animationType = "none"
           /\ ~renderer.animationInterval
           /\ renderer.icon = Static(0, 0)

C10_OtherErrorsShowLastGood ==
    \A p \in Procs :
        (procs[p].pc = "done"
         /\ procs[p].outcome \in {"needs_setup", "exhausted"})
        => /\ renderer.animationType = "none"
           /\ renderer.icon = Static(usageData.s, usageData.w)

\* The step of p calls stopAnimation: with arguments from refreshIcon,
\* handleNotAuthenticated and the needs_setup branch, without arguments from
\* startAnimation (fetchUsageData's spinner, refreshIcon's pulse).
StopsAnimation(p) ==
    \/ procs[p].pc \in {"ri_stop", "na_stop", "ns_stop"}
       /\ procs'[p].pc # procs[p].pc
    \/ procs[p].pc = "f_guard" /\ procs'[p].pc = "f_settings"
    \/ procs[p].pc = "ri_start" /\ procs'[p].pc # "ri_start"
       /\ ShouldPulse(procs[p].rd.s, procs[p].rd.w)

\* C11: every stopAnimation call made while an animation runs, the one inside
\* startAnimation included, issues exactly one static draw.
C11_StopDrawsOnce ==
    [][\A p \in Procs :
          (renderer.animationInterval /\ StopsAnimation(p))
          => renderer'.staticDraws = 1]_vars

Max(a, b) == IF a > b THEN a ELSE b

Clamp(u) == Min(Max(u, 0), 100)

InRange(pct) == 0 <= pct /\ pct <= 100

\* C12: every percentage of the stored snapshot (session, weekly-all,
\* model-specific) lies in [0,100], whatever the API or the content script
\* sent.
C12_StoredPercentagesInRange ==
    InRange(usageData.s) /\ InRange(usageData.w) /\ InRange(usageData.m)

\* C13: the data parseOrgUsageResponse hands to saveUsageData carries, for
\* each quota object of the response body, the percentage
\* min(max(utilization, 0), 100).
C13_NormalizerClamps ==
    \A p \in Procs :
        (procs[p].pc = "sv_read" /\ procs[p].src = "api")
        => \A d \in procs[p].body :
              /\ procs[p].data.s = Clamp(d.s)
              /\ procs[p].data.w = Clamp(d.w)
              /\ procs[p].data.m = Clamp(d.m)

C15_ErrorKeepsFetchTime ==
    [][(usageData' # usageData
        /\ usageData'.err \in {"not_authenticated", "needs_setup"})
       => usageData'.last = usageData.last]_vars

\* C16: a stored organizationId changes only in the SET_ORG_ID handler's
\* settings write.
C16_StoredOrgIdChangesOnlyBySetOrgId ==
    [][(settings.organizationId # NoOrg
        /\ settings'.organizationId # settings.organizationId)
       => \E p \in Procs :
              procs[p].pc = "so_set" /\ procs'[p].pc # "so_set"]_vars

\* C17: saveUsageData's write leaves nothing of the previous snapshot: a
\* key the saved data does not supply is stored as in an empty snapshot.
C17_SuccessReplacesWholesale ==
    [][\A p \in Procs :
          (procs[p].pc = "sv_write" /\ procs'[p].pc # "sv_write")
          => \A k \in DOMAIN usageData' \
                       (DOMAIN procs[p].data \cup {"last", "src", "err"}) :
                 usageData'[k] = DefaultUsageData[k]]_vars

\* C18: a snapshot write is computed from the snapshot it replaces: when an
\* invocation is about to write, the record it read is still the stored one.
C18_NoWriteFromReplacedSnapshot ==
    \A p \in Procs :
        procs[p].pc \in {"sv_write", "na_write", "ns_write"}
        => procs[p].rd = usageData

\* C19: a handler that wrote the snapshot (success, not_authenticated or
\* needs_setup) has sent USAGE_DATA_UPDATED by the time it returns.
C19_WriteIsPushed ==
    \A p \in Procs :
        (procs[p].pc = "done"
         /\ procs[p].outcome \in {"success", "not_authenticated",
                                  "needs_setup"})
        => procs[p].pushed

\* C20: when setSettings(patch) has returned, every key of patch is stored
\* with patch's value and every key of the settings it found, stored or
\* default, that patch lacks is stored with the value it had.
C20_SetSettingsMerges ==
    \A p \in Procs :
        (procs[p].kind = "settings" /\ procs[p].pc = "done")
        => /\ \A k \in DOMAIN procs[p].patch :
                  k \in DOMAIN settings /\ settings[k] = procs[p].patch[k]
           /\ \A k \in DOMAIN procs[p].current \ DOMAIN procs[p].patch :
                  k \in DOMAIN settings /\ settings[k] = procs[p].current[k]

\* A write of the theme alone has returned and the organizationId stored
\* before it is still stored.
C20_Witness ==
    \E p \in Procs :
        /\ procs[p].kind = "settings"
        /\ procs[p].pc = "done"
        /\ DOMAIN procs[p].patch = {"theme"}
        /\ procs[p].patch.theme = "light"
        /\ procs[p].current.theme = "dark"
        /\ settings.theme = "light"
        /\ settings.organizationId = StoredOrg

\* The entries of a body that carry a limit object.
ModelPresent(f) == {i \in DOMAIN f : Truthy(f[i].value)}

\* The entry the priority order names: opus, then sonnet, then haiku, then
\* the first of the remaining entries; 0 when no entry carries a limit.
ModelPriorityPick(f) ==
    LET At1(k) == {i \in ModelPresent(f) : f[i].key = k}
        first(S) == CHOOSE i \in S : \A j \in S : i <= j
    IN  IF At1(Opus) # {} THEN first(At1(Opus))
        ELSE IF At1(Sonnet) # {} THEN first(At1(Sonnet))
        ELSE IF At1(Haiku) # {} THEN first(At1(Haiku))
        ELSE IF ModelPresent(f) # {} THEN first(ModelPresent(f))
        ELSE 0

\* C21: when a response body carries per-model weekly limits, the
\* model-specific entry of the parsed result is the one the fixed priority
\* names (opus, then sonnet, then haiku, then the first remaining seven_day_*
\* entry): its modelName is the capitalized remainder of that key and its
\* percentage is that limit's.
C21_ModelChosenByPriority ==
    \A p \in Procs :
        (procs[p].kind = "parse" /\ procs[p].pc = "done")
        => \A f \in procs[p].body :
              LET i == ModelPriorityPick(f)
              IN  i # 0 =>
                    /\ procs[p].data.modelName = Capitalize(f[i].key)
                    /\ procs[p].data.percentage
                           = Min(f[i].value.utilization, 100)

\* C22: the reset timestamp parsed for a quota object is the epoch time of
\* its resets_at when that is an ISO-8601 instant, and null when resets_at
\* is missing or is no date; it is never an invalid number.
C22_ResetTimestampNumberOrNull ==
    \A p \in Procs :
        (procs[p].kind = "parse" /\ procs[p].pc = "done")
        => \A f \in procs[p].body :
              LET x == SelectModelLimit(f).modelLimit
              IN  /\ procs[p].data.resetTimestamp.is \in {"number", "null"}
                  /\ procs[p].data.resetTimestamp.is = "number"
                        <=> (Truthy(x) /\ x.resets_at = IsoInstant)

\* C23: a 2xx answer of the quota API whose body has none of the quota
\* objects is handled like a transient failure: no snapshot is written from
\* it, so the stored error tag and percentages stay as they were.
C23_MalformedBodyWritesNothing ==
    [][\A p \in Procs :
          (/\ procs[p].pc = "sv_write"
           /\ procs'[p].pc # "sv_write"
           /\ procs[p].body # {}
           /\ \A d \in procs[p].body : DOMAIN d = {})
          => usageData' = usageData]_vars

\* The band of a percentage: green [0, 50), yellow [50, 70), orange
\* [70, 90), red [90, 100], numbered in this order.
ColorBand(x) ==
    IF x < 50 THEN 1 ELSE IF x < 70 THEN 2 ELSE IF x < 90 THEN 3 ELSE 4

BandColor == <<"#22c55e", "#eab308", "#f97316", "#ef4444">>

ColorRank(c) == CHOOSE i \in DOMAIN BandColor : BandColor[i] = c

C25_OuterWeeklyInnerSession ==
    renderer.icon.mode \in {"static", "pulse"}
    => /\ IconRings(renderer.icon).outer = ProgressArc(renderer.icon.w)
       /\ IconRings(renderer.icon).inner = ProgressArc(renderer.icon.s)

\* The alarm's handler is at fetchUsageData's guard and the last write of
\* the snapshot is at least the throttle interval old.
TriggerDue(p) ==
    /\ procs[p].kind = "alarm"
    /\ procs[p].pc = "f_guard"
    /\ ~procs[p].net
    /\ usageData.last # NullTime
    /\ now - usageData.last >= MinFetchIntervalMs

\* C26: a periodic trigger that arrives at least the throttle interval
\* after the last write of the snapshot, whatever failure that write or the
\* attempts before it ended with, starts an attempt that issues a network
\* request.
C26_TriggerStartsAttempt ==
    \A p \in OneAtATime :
        TriggerDue(p)
        ~> (procs[p].kind = "alarm" /\ procs[p].net)

\* The last attempt ended with not_authenticated one throttle interval ago,
\* and the alarm's handler has issued the quota API request.
C26_Witness ==
    \E p \in Procs :
        /\ procs[p].kind = "alarm"
        /\ procs[p].net
        /\ procs[p].pc = "na_read"
        /\ usageData.err = "not_authenticated"
        /\ now - usageData.last = MinFetchIntervalMs

\* The handler has run setupAlarm to its end.
AfterSetupAlarm(p) ==
    /\ procs[p].kind \in {"install", "startup"}
    /\ procs[p].pc \notin {"idle", "in_read", "in_write", "sa_clear",
                           "sa_create"}

\* C27: once the install or the startup handler has run setupAlarm the
\* periodic alarm is registered; a registered alarm is the one that fires
\* first after 0.1 minute (6000 ms) and then every 5 minutes (300000 ms);
\* and however often setupAlarm runs, at most one alarm is registered.
C27_OneAlarmRegistered ==
    /\ Cardinality(alarmSet) <= 1
    /\ \A a \in alarmSet :
          /\ a.name = FetchUsageAlarmName
          /\ a.delay = 6000
          /\ a.period = 300000
    /\ \A p \in Procs : AfterSetupAlarm(p) => alarmSet # {}

\* The worker was started with the alarm and the snapshot a previous run
\* left (the snapshot has not been written since), the startup handler has
\* run setupAlarm again, and one alarm is registered.
C27_Witness ==
    /\ \E p \in Procs :
          /\ procs[p].kind = "startup"
          /\ procs[p].pc = "f_guard"
    /\ usageData = LeftUsageData
    /\ Cardinality(alarmSet) = 1

\* C28: the stored snapshot changes only in a write of the strategy chain
\* (handleNotAuthenticated's, saveUsageData's, the needs_setup branch's); the
\* lifecycle handlers and the icon code never write it.
C28_OnlyChainWrites ==
    [][usageData' # usageData
       => \E p \in Procs :
             /\ procs[p].pc \in {"na_write", "sv_write", "ns_write"}
             /\ procs'[p].pc # procs[p].pc]_vars

\* C29: an attempt is at a request of identity discovery (/bootstrap,
\* /account) only if the settings it read at its start held no organization
\* id.
C29_DiscoveryOnlyWithoutOrgId ==
    \A p \in Procs :
        procs[p].pc \in {"disc_boot", "disc_acct"} => procs[p].org = NoOrg

\* C30: in the stored snapshot an error tag (not_authenticated, needs_setup)
\* goes with the source none, and a source api or scrape with no error tag.
C30_ErrorExcludesSource ==
    usageData.err # "none" => usageData.src = "none"

\* The attempt of p has so far met transient failures only: no request was
\* answered 401/403 and no usage body was received.
OnlyTransientFailures(p) ==
    /\ procs[p].kind \in {"init", "alarm"}
    /\ InChain(p)
    /\ ~procs[p].sawAuth
    /\ \A d \in procs[p].body : DOMAIN d = {}

Occurrences(html, v) == Cardinality({i \in DOMAIN html : html[i].value = v})

RECURSIVE ScanValues(_, _)
ScanValues(html, whole) ==
    IF html = <<>> THEN <<>>
    ELSE (IF Occurrences(whole, Head(html).value) <= 3
          THEN <<Head(html).value>> ELSE <<>>)
         \o ScanValues(Tail(html), whole)

Tier(html, n) ==
    CASE n = 1 -> MatchValues(html, {"used", "limit"})
      [] n = 2 -> MatchValues(html, {"width"})
      [] OTHER -> ScanValues(html, html)

\* The first tier that yields a value (3 when none does).
WinningTier(html) ==
    IF Tier(html, 1) # <<>> THEN 1 ELSE IF Tier(html, 2) # <<>> THEN 2 ELSE 3

SeqRange(q) == {q[i] : i \in DOMAIN q}

\* C32: the result of the extraction is supplied by the first tier that
\* yields at least one value: its session percentage is a value of that
\* tier, also when the tier yields fewer than three values.
C32_FirstNonEmptyTierWins ==
    \A p \in Procs :
        (procs[p].kind = "extract" /\ procs[p].pc = "done")
        => \A html \in procs[p].body :
              LET t == Tier(html, WinningTier(html))
              IN  t # <<>> => procs[p].data.s \in SeqRange(t)

\* C33: the values of the phrasing tier are assigned to session, weekly-all
\* and weekly-model in document order, whichever pattern matched each; and
\* the page with "39% utilisés", "22% of limit" and "5%" eight times yields
\* session 39 and weekly-all 22.
C33_DocumentOrderAndNoise ==
    \A p \in Procs :
        (procs[p].kind = "extract" /\ procs[p].pc = "done")
        => \A html \in procs[p].body :
              LET t == Tier(html, 1)
              IN  /\ Len(t) >= 3
                     => /\ procs[p].data.s = t[1]
                        /\ procs[p].data.w = t[2]
                        /\ procs[p].data.m = t[3]
                  /\ html = NoisyPage
                     => /\ procs[p].data.s = 39
                        /\ procs[p].data.w = 22

\* C34: in the renderer, after any calls of startAnimation, stopAnimation
\* and setAnimationProgress, at most one frame timer is live, and one is
\* live exactly when an animation type is set, which is when isAnimating()
\* holds.
C34_OneTimerIffAnimating ==
    /\ renderer.timers <= 1
    /\ renderer.timers = 1 <=> renderer.animationType # "none"
    /\ IsAnimating(renderer) <=> renderer.animationType # "none"

\* The spinner was started after the warning animation had drawn a frame of
\* other progress values than those set since, and one timer is live.
C34_Witness ==
    /\ renderer.animationType = "spin"
    /\ renderer.icon.mode = "pulse"
    /\ renderer.icon.s = 80
    /\ renderer.currentProgress.s = 40
    /\ renderer.timers = 1

\* The stored snapshot is the default one as the install handler wrote it:
\* nothing but lastFetchedAt has ever been set.
InstallDefaultStored ==
    /\ usageData.last # NullTime
    /\ usageData = SetUsageData(DefaultUsageData, usageData.last)

\* C35: on a fresh install the fetchUsageData call of the install handler
\* passes the throttle guard although the handler has just written the
\* default snapshot.
C35_InstallFetchPassesGuard ==
    [][\A p \in Procs :
          (/\ procs[p].kind = "install"
           /\ procs[p].pc = "f_guard"
           /\ procs'[p].pc # "f_guard"
           /\ InstallDefaultStored)
          => procs'[p].pc = "f_settings"]_vars


\* C36: whenever no handler is running and the stored error is needs_setup,
\* the settings hold no organization id.
C36_NeedsSetupMeansNoOrg ==
    ((\A p \in Procs : ~Active(p)) /\ usageData.err = "needs_setup")
        => settings.organizationId = NoOrg


\* C37: a SET_ORG_ID handler that has replied has requested the quota API
\* with the id it stored.
C37_SetOrgIdReachesApi ==
    \A p \in Procs :
        (procs[p].kind = "setorg" /\ procs[p].pc = "done")
            => (procs[p].net /\ procs[p].nth >= 1)


\* C38: when saveUsageData writes a content-script report that says the user
\* is not logged in, the stored error becomes not_authenticated.
C38_LoggedOutReportStored ==
    [][\A p \in Procs :
          (/\ procs[p].kind = "scraped"
           /\ procs[p].pc = "sv_write"
           /\ procs'[p].pc # "sv_write"
           /\ "err" \in DOMAIN procs[p].data)
          => usageData'.err = "not_authenticated"]_vars


\* The percentages the toolbar icon shows: those of the running pulse
\* animation, or those of the last static draw.
IconShowsPercentages ==
    renderer.animationType = "pulse" \/ renderer.icon.mode = "static"

IconPercentages ==
    IF renderer.animationType = "pulse"
    THEN renderer.currentProgress
    ELSE [s |-> renderer.icon.s, w |-> renderer.icon.w]

\* C39: whenever every handler has run to completion and the stored error is
\* none, the percentages the icon shows are the stored session and weekly
\* percentages.
C39_IconShowsStored ==
    ((\A p \in Procs : ~Active(p)) /\ usageData.err = "none"
        /\ IconShowsPercentages)
        => (/\ IconPercentages.s = usageData.s
            /\ IconPercentages.w = usageData.w)


\* C40: a USAGE_DATA_SCRAPED message that answers no REQUEST_REFRESH of
\* strategy 3 leaves the stored snapshot as it is.
C40_UnsolicitedScrapeIgnored ==
    [][\A p \in Procs :
          (/\ procs[p].kind = "scraped"
           /\ procs[p].pc = "sv_write"
           /\ procs'[p].pc # "sv_write"
           /\ ~procs[p].asked)
          => usageData' = usageData]_vars

====
